---- MODULE Spec2Model ----
(***************************************************************************)
(* pycamv: resolution of observed peptide modifications against the        *)
(* declared variable/fixed pools (discoverer.py) and the combinatorial     *)
(* count of PeptideQuery (search.py).                                      *)
(*                                                                         *)
(* Python values are modelled as follows.                                  *)
(*   str    a sequence of one-character strings, so that `a in b` is the   *)
(*          substring test and `s.count(t)` the substring count that       *)
(*          Python performs ("N-term" is <<"N","-","t","e","r","m">>).      *)
(*          Modification names are only ever compared for equality and are *)
(*          kept as TLA+ strings.                                          *)
(*   tuple / list of letters   a record [py, elts]: a tuple never equals a *)
(*          list in Python, whatever their elements.                       *)
(*   None   the empty tuple (falsy, and different from every pool entry).  *)
(***************************************************************************)
EXTENDS Integers, Sequences, FiniteSets, TLC

VARIABLES
    var_mods,        \* parsed variable pool: list of (name, letters)
    fixed_mods,      \* parsed fixed pool: list of (name, letters)
    pep_seq,         \* sequence of the peptide being resolved
    seen,            \* history: the hits the two cursors yielded so far
    pep_var_mods,    \* _get_pep_mods: bound specs, then the counted list
    pep_fixed_mods,  \* _get_pep_mods: bound specs, then the counted list
    pc,              \* position in _get_pep_mods / _get_peptide_queries
    out              \* _get_peptide_queries: list of PeptideQuery

vars == <<var_mods, fixed_mods, pep_seq, seen, pep_var_mods, pep_fixed_mods, pc, out>>

----------------------------------------------------------------------------
(* Bounds *)

MaxSeqLen == 3

MaxHits == 2

MaxRows == 2

MaxScan == 2

----------------------------------------------------------------------------
(* Python helpers *)

NTerm == <<"N", "-", "t", "e", "r", "m">>

CTerm == <<"C", "-", "t", "e", "r", "m">>

None == <<>>

PyTuple(elts) == [py |-> "tuple", elts |-> elts]

PyList(elts) == [py |-> "list", elts |-> elts]

Range(s) == {s[i] : i \in 1..Len(s)}

\* `sub in s` for two str
StrIn(sub, s) ==
    \E k \in 0..(Len(s) - Len(sub)) : SubSeq(s, k + 1, k + Len(sub)) = sub

RECURSIVE StrCountFrom(_, _, _)
StrCountFrom(s, sub, k) ==
    IF k + Len(sub) > Len(s) THEN 0
    ELSE IF SubSeq(s, k + 1, k + Len(sub)) = sub
         THEN 1 + StrCountFrom(s, sub, k + Len(sub))
         ELSE StrCountFrom(s, sub, k + 1)

\* s.count(sub): non-overlapping occurrences of sub in s
StrCount(s, sub) ==
    IF Len(sub) = 0 THEN Len(s) + 1 ELSE StrCountFrom(s, sub, 0)

\* list.count(x)
ListCount(l, x) == Cardinality({i \in 1..Len(l) : l[i] = x})

RECURSIVE SumSeq(_)
SumSeq(s) == IF Len(s) = 0 THEN 0 ELSE Head(s) + SumSeq(Tail(s))

----------------------------------------------------------------------------
(* discoverer.py *)

ParseLetters(letters) ==
    IF letters \in {NTerm, CTerm}
    THEN PyTuple(<<letters>>)
    ELSE PyTuple([i \in 1..Len(letters) |-> <<letters[i]>>])

FindMod(abbrev, letter, pot_mods) ==
    LET hit == {i \in 1..Len(pot_mods) :
                    pot_mods[i][1] = abbrev /\ StrIn(letter, pot_mods[i][2])}
    IN  IF hit = {} THEN None
        ELSE pot_mods[CHOOSE i \in hit : \A j \in hit : i <= j]

\* The body of both loops of _get_pep_mods: which list the hit goes to.
ClassifyFixedFirst(abbrev, letter, vm, fm) ==
    LET mod == FindMod(abbrev, letter, fm) IN
    IF mod # None THEN [pool |-> "fixed", mod |-> mod]
    ELSE LET mod2 == FindMod(abbrev, letter, vm) IN
         IF mod2 # None THEN [pool |-> "var", mod |-> mod2]
         ELSE [pool |-> "raise", mod |-> None]

Classify(abbrev, letter, vm, fm) ==
    LET mod == FindMod(abbrev, letter, vm) IN
    IF mod # None THEN [pool |-> "var", mod |-> mod]
    ELSE LET mod2 == FindMod(abbrev, letter, fm) IN
         IF mod2 # None THEN [pool |-> "fixed", mod |-> mod2]
         ELSE [pool |-> "raise", mod |-> None]

\* Keys of Counter(mod_list), in order of first occurrence (the order of
\* dict iteration; C10 is about every other order).
RECURSIVE CounterKeys(_)
CounterKeys(l) ==
    IF Len(l) = 0 THEN <<>>
    ELSE LET front == CounterKeys(SubSeq(l, 1, Len(l) - 1))
             last == l[Len(l)]
         IN  IF last \in Range(front) THEN front ELSE Append(front, last)

CountModsOnce(mod_list) ==
    LET keys == CounterKeys(mod_list) IN
    [k \in 1..Len(keys) |-> <<1, keys[k][1], ParseLetters(keys[k][2])>>]

CountMods(mod_list) ==
    LET keys == CounterKeys(mod_list) IN
    [k \in 1..Len(keys) |->
        <<ListCount(mod_list, keys[k]), keys[k][1], ParseLetters(keys[k][2])>>]

----------------------------------------------------------------------------
(* search.py *)

RECURSIVE Factorial(_)
Factorial(n) == IF n <= 0 THEN 1 ELSE n * Factorial(n - 1)

\* utils.nCr
nCr(n, r) ==
    IF n < 0 \/ r < 0 \/ r > n THEN 0
    ELSE Factorial(n) \div (Factorial(r) * Factorial(n - r))

CheckMods(mods) ==
    \A i \in 1..Len(mods) : mods[i][1] \in Int /\ mods[i][3].py = "tuple"

\* _count_instances (defined in search.py, called nowhere)
CountInstances(seq, letters) ==
    LET sites == <<NTerm>> \o [i \in 1..Len(seq) |-> <<seq[i]>>] \o <<CTerm>>
    IN  SumSeq([i \in 1..Len(letters) |-> ListCount(sites, letters[i])])

STLetters == << <<"S">>, <<"T">> >>

STYLetters == << <<"S">>, <<"T">>, <<"Y">> >>

\* `letters` after the Phospho test of _calc_num_comb
EffectiveLetters(mod, letters) ==
    IF mod = "Phospho" /\ letters = PyList(STLetters)
    THEN PyList(STYLetters)
    ELSE letters

\* potential_mod_sites as first assigned
AvailableSites(seq, mod, letters) ==
    LET eff == EffectiveLetters(mod, letters).elts IN
    SumSeq([i \in 1..Len(eff) |-> StrCount(seq, eff[i])])

\* potential_mod_sites of entry k when nCr is called
PotentialModSitesAnyLetters(seq, mods, k) ==
    AvailableSites(seq, mods[k][2], mods[k][3])
    - SumSeq([o \in 1..Len(mods) |->
                IF mods[o][2] # mods[k][2] THEN mods[o][1] ELSE 0])

PotentialModSites(seq, mods, k) ==
    LET letters == EffectiveLetters(mods[k][2], mods[k][3]) IN
    AvailableSites(seq, mods[k][2], mods[k][3])
    - SumSeq([o \in 1..Len(mods) |->
                IF mods[o][3] = letters /\ mods[o][2] # mods[k][2]
                THEN mods[o][1] ELSE 0])

NumCombAssigned(seq, mods, k) ==
    IF k = 0 THEN 1
    ELSE nCr(PotentialModSites(seq, mods, k), mods[k][1])

\* num_comb after the first k entries of the loop
RECURSIVE NumCombUpTo(_, _, _)
NumCombUpTo(seq, mods, k) ==
    IF k = 0 THEN 1
    ELSE NumCombUpTo(seq, mods, k - 1)
         * nCr(PotentialModSites(seq, mods, k), mods[k][1])

CalcNumComb(seq, mods) == NumCombUpTo(seq, mods, Len(mods))

Cursor == "cursor"

\* PeptideQuery.__init__ past its two assertions
PeptideQuery(gi, query, seq, vmods, fmods, scan) ==
    [gi |-> gi, query |-> query, pep_seq |-> seq,
     pep_var_mods |-> vmods, pep_fixed_mods |-> fmods,
     scan |-> scan, num_comb |-> CalcNumComb(seq, vmods)]

UniqueTuple(q) == <<q.gi, q.query, q.pep_seq, q.scan>>

----------------------------------------------------------------------------
(* Inputs: the pools as parsed by RE_DYN_MODS (name, site string), the rows
   of the queries *)

Peptides(residues) == UNION {[1..n -> residues] : n \in 1..MaxSeqLen}

AcetylNterm == <<"Acetyl", NTerm>>

AcetylK == <<"Acetyl", <<"K">>>>

DeamidatedNQ == <<"Deamidated", <<"N", "Q">>>>

Abbrevs == {"Acetyl", "Deamidated"}

Residues == {"K", "N"}

VarPools == {<<>>, <<AcetylNterm, DeamidatedNQ>>, <<AcetylK>>}

FixedPools == {<<>>, <<AcetylK>>, <<AcetylNterm>>}

PosTypes == {1, 2}

----------------------------------------------------------------------------
(* _get_pep_mods, one loop iteration per step *)

Init ==
    /\ var_mods \in VarPools
    /\ fixed_mods \in FixedPools
    /\ pep_seq \in Peptides(Residues)
    /\ seen = <<>>
    /\ pep_var_mods = <<>>
    /\ pep_fixed_mods = <<>>
    /\ pc = "aa_mods"
    /\ out = <<>>

Resolve(abbrev, locus, letter) ==
    LET c == Classify(abbrev, letter, var_mods, fixed_mods) IN
    /\ seen' = Append(seen, [abbrev |-> abbrev, locus |-> locus,
                             letter |-> letter, mod |-> c.mod])
    /\ pep_var_mods' =
          IF c.pool = "var" THEN Append(pep_var_mods, c.mod) ELSE pep_var_mods
    /\ pep_fixed_mods' =
          IF c.pool = "fixed" THEN Append(pep_fixed_mods, c.mod) ELSE pep_fixed_mods
    /\ pc' = IF c.pool = "raise" THEN "raised" ELSE pc
    /\ UNCHANGED <<var_mods, fixed_mods, pep_seq, out>>

ResolveAA ==
    /\ pc = "aa_mods"
    /\ Len(seen) < MaxHits
    /\ \E abbrev \in Abbrevs, pos \in 0..(Len(pep_seq) - 1) :
          Resolve(abbrev, <<"aa", pos>>, <<pep_seq[pos + 1]>>)

EndAA ==
    /\ pc = "aa_mods"
    /\ pc' = "term_mods"
    /\ UNCHANGED <<var_mods, fixed_mods, pep_seq, seen, pep_var_mods,
                   pep_fixed_mods, out>>

ResolveTerm ==
    /\ pc = "term_mods"
    /\ Len(seen) < MaxHits
    /\ \E abbrev \in Abbrevs, pos_type \in PosTypes :
          Resolve(abbrev, <<"term", pos_type>>,
                  IF pos_type = 1 THEN NTerm ELSE CTerm)

ReturnPepMods ==
    /\ pc = "term_mods"
    /\ pep_var_mods' = CountMods(pep_var_mods)
    /\ pep_fixed_mods' = CountMods(pep_fixed_mods)
    /\ pc' = "returned"
    /\ UNCHANGED <<var_mods, fixed_mods, pep_seq, seen, out>>

NewPeptideQuery ==
    /\ pc = "returned"
    /\ CheckMods(pep_var_mods)
    /\ CheckMods(pep_fixed_mods)
    /\ out' = Append(out, PeptideQuery("P1", Cursor, pep_seq,
                                       pep_var_mods, pep_fixed_mods, 1))
    /\ pc' = "constructed"
    /\ UNCHANGED <<var_mods, fixed_mods, pep_seq, seen, pep_var_mods,
                   pep_fixed_mods>>

Next == ResolveAA \/ EndAA \/ ResolveTerm \/ ReturnPepMods \/ NewPeptideQuery

Spec == Init /\ [][Next]_vars

----------------------------------------------------------------------------
(* Properties of the resolver and the aggregator *)

\* The target-site tokens a pool entry declares.
TokenSet(mod) == Range(ParseLetters(mod[2]).elts)

Declares(pool, abbrev, token) ==
    \E i \in 1..Len(pool) : pool[i][1] = abbrev /\ token \in TokenSet(pool[i])

Counted == pc \in {"returned", "constructed"}

CountedEntries ==
    {<<"var", k>> : k \in 1..Len(pep_var_mods)}
        \cup {<<"fixed", k>> : k \in 1..Len(pep_fixed_mods)}

EntryAt(e) == IF e[1] = "var" THEN pep_var_mods[e[2]] ELSE pep_fixed_mods[e[2]]

HasEntry(list, mod) ==
    \E k \in 1..Len(list) :
        list[k][2] = mod[1] /\ list[k][3] = ParseLetters(mod[2])

\* C1: a hit whose (abbreviation, token) pair the variable pool declares is
\* appended to the variable list and not to the fixed list, whatever the fixed
\* pool declares, and after aggregation its entry is in the variable list and
\* not in the fixed list.
C1_VariableBeforeFixed ==
    [][ /\ (Len(seen') = Len(seen) + 1
             /\ Declares(var_mods, seen'[Len(seen')].abbrev, seen'[Len(seen')].letter))
           => (/\ Len(pep_var_mods') = Len(pep_var_mods) + 1
               /\ pep_var_mods'[Len(pep_var_mods')] \in Range(var_mods)
               /\ pep_var_mods'[Len(pep_var_mods')][1] = seen'[Len(seen')].abbrev
               /\ SubSeq(pep_var_mods', 1, Len(pep_var_mods)) = pep_var_mods
               /\ pep_fixed_mods' = pep_fixed_mods
               /\ pc' = pc)
        /\ (pc = "term_mods" /\ pc' = "returned")
           => \A i \in 1..Len(seen) :
                Declares(var_mods, seen[i].abbrev, seen[i].letter)
                => (/\ HasEntry(pep_var_mods', seen[i].mod)
                    /\ ~HasEntry(pep_fixed_mods', seen[i].mod))
      ]_vars

C1_Witness ==
    /\ pc = "returned"
    /\ \E i \in 1..Len(seen) :
          /\ Declares(var_mods, seen[i].abbrev, seen[i].letter)
          /\ Declares(fixed_mods, seen[i].abbrev, seen[i].letter)
          /\ HasEntry(pep_var_mods, seen[i].mod)

\* C2: when a peptide resolves, the counts of the variable and fixed entries
\* add up to the number of hits, every hit is counted in exactly one entry and
\* every count is at least 1.
C2_HitConservation ==
    Counted =>
        /\ SumSeq([k \in 1..Len(pep_var_mods) |-> pep_var_mods[k][1]])
             + SumSeq([k \in 1..Len(pep_fixed_mods) |-> pep_fixed_mods[k][1]])
           = Len(seen)
        /\ \A e \in CountedEntries : EntryAt(e)[1] >= 1
        /\ \A i \in 1..Len(seen) :
              Cardinality({e \in CountedEntries :
                              /\ EntryAt(e)[2] = seen[i].mod[1]
                              /\ EntryAt(e)[3] = ParseLetters(seen[i].mod[2])}) = 1
        /\ pc = "constructed"
           => /\ out[1].pep_var_mods = pep_var_mods
              /\ out[1].pep_fixed_mods = pep_fixed_mods

C2_Witness ==
    /\ pc = "constructed"
    /\ Len(seen) >= 2
    /\ \E k \in 1..Len(pep_var_mods) : pep_var_mods[k][1] >= 2

\* C3: a hit whose (abbreviation, token) pair neither pool declares makes the
\* resolution fail, with no PeptideQuery built, and no hit is bound to a pool
\* entry whose target-site tokens do not contain the hit's token.
C3_UnknownModificationRaises ==
    \A i \in 1..Len(seen) :
        /\ (/\ ~Declares(var_mods, seen[i].abbrev, seen[i].letter)
            /\ ~Declares(fixed_mods, seen[i].abbrev, seen[i].letter))
           => (seen[i].mod = None /\ pc = "raised" /\ out = <<>>)
        /\ seen[i].mod # None => seen[i].letter \in TokenSet(seen[i].mod)

\* Hits at pairwise distinct residues, one hit per terminus and abbreviation.
DistinctLoci ==
    \A i, j \in 1..Len(seen) :
        i < j => \/ seen[i].locus[1] # seen[j].locus[1]
                 \/ seen[i].locus[1] = "aa" /\ seen[i].locus # seen[j].locus
                 \/ /\ seen[i].locus[1] = "term"
                    /\ <<seen[i].abbrev, seen[i].letter>>
                         # <<seen[j].abbrev, seen[j].letter>>

\* C9: for hits at pairwise distinct loci, no counted entry has a count above
\* the number of sites of the peptide that belong to its residues (a residue
\* letter by its occurrences, a terminal token as one site).
C9_CountWithinSites ==
    (Counted /\ DistinctLoci)
        => \A e \in CountedEntries :
              EntryAt(e)[1] <= CountInstances(pep_seq, EntryAt(e)[3].elts)

----------------------------------------------------------------------------
(* PeptideQuery on any sequence and any list of bound variable specs *)

EnumResidues == {"S", "T", "Y", "M"}

EnumPool ==
    << <<"Phospho", <<"S", "T">>>>, <<"Phospho", <<"Y">>>>,
       <<"Dehydrated", <<"S", "T">>>>, <<"Sulfo", <<"T", "S">>>>,
       <<"Oxidation", <<"M">>>>, <<"Dioxidation", <<"M">>>>,
       <<"Acetyl", NTerm>> >>

\* _get_pep_mods when both loops are over: any bound variable specs
EnumInit ==
    /\ var_mods = EnumPool
    /\ fixed_mods = <<>>
    /\ pep_seq \in Peptides(EnumResidues)
    /\ seen = <<>>
    /\ pep_var_mods \in UNION {[1..n -> Range(EnumPool)] : n \in 0..MaxHits}
    /\ pep_fixed_mods = <<>>
    /\ pc = "term_mods"
    /\ out = <<>>

EnumNext == ReturnPepMods \/ NewPeptideQuery

SpecEnum == EnumInit /\ [][EnumNext]_vars

----------------------------------------------------------------------------
(* _get_peptide_queries, one row of the query per step.  Of a PeptideQuery
   the identity fields, the two lists and num_comb are kept; protein,
   filename, pep_exp_mz and pep_exp_z are stored and never read. *)

RECURSIVE ResolveAll(_, _, _, _)
ResolveAll(hits, vm, fm, k) ==
    IF k = 0 THEN [raised |-> FALSE, var |-> <<>>, fixed |-> <<>>]
    ELSE LET r == ResolveAll(hits, vm, fm, k - 1)
             c == Classify(hits[k][1], hits[k][2], vm, fm)
         IN  IF r.raised \/ c.pool = "raise" THEN [r EXCEPT !.raised = TRUE]
             ELSE IF c.pool = "var" THEN [r EXCEPT !.var = Append(@, c.mod)]
             ELSE [r EXCEPT !.fixed = Append(@, c.mod)]

GetPepMods(seq, aa_mods, term_mods, vm, fm) ==
    LET hits == [i \in 1..Len(aa_mods) |->
                    <<aa_mods[i][1], <<seq[aa_mods[i][2] + 1]>>>>]
                \o [i \in 1..Len(term_mods) |->
                    <<term_mods[i][1],
                      IF term_mods[i][2] = 1 THEN NTerm ELSE CTerm>>]
        r == ResolveAll(hits, vm, fm, Len(hits))
    IN  [raised |-> r.raised, var |-> CountMods(r.var), fixed |-> CountMods(r.fixed)]

\* sorted(out, key=lambda x: x.scan): a stable sort
RECURSIVE SortedByScan(_)
SortedByScan(l) ==
    IF Len(l) = 0 THEN <<>>
    ELSE LET front == SortedByScan(SubSeq(l, 1, Len(l) - 1))
             x == l[Len(l)]
             n == Cardinality({i \in 1..Len(front) : front[i].scan <= x.scan})
         IN  SubSeq(front, 1, n) \o <<x>> \o SubSeq(front, n + 1, Len(front))

Accessions == {"P1_HUMAN", "P2_HUMAN"}

ReaderResidues == {"K"}

ReaderAAMods == {<<>>, << <<"Acetyl", 0>> >>, << <<"Deamidated", 0>> >>}

ReaderInit ==
    /\ var_mods = <<AcetylK>>
    /\ fixed_mods = <<AcetylNterm>>
    /\ pep_seq = <<>>
    /\ seen = <<>>
    /\ pep_var_mods = <<>>
    /\ pep_fixed_mods = <<>>
    /\ pc = "rows"
    /\ out = <<>>

ReadRow ==
    /\ pc = "rows"
    /\ Len(out) < MaxRows
    /\ \E accession \in Accessions, seq \in Peptides(ReaderResidues),
          scan \in 1..MaxScan, aa_mods \in ReaderAAMods :
          LET r == GetPepMods(seq, aa_mods, <<>>, var_mods, fixed_mods) IN
          /\ ~r.raised
          /\ CheckMods(r.var)
          /\ CheckMods(r.fixed)
          /\ out' = Append(out, PeptideQuery(accession, Cursor, seq,
                                             r.var, r.fixed, scan))
    /\ UNCHANGED <<var_mods, fixed_mods, pep_seq, seen, pep_var_mods,
                   pep_fixed_mods, pc>>

ReadRowRaises ==
    /\ pc = "rows"
    /\ Len(out) < MaxRows
    /\ \E seq \in Peptides(ReaderResidues), aa_mods \in ReaderAAMods :
          GetPepMods(seq, aa_mods, <<>>, var_mods, fixed_mods).raised
    /\ pc' = "raised"
    /\ UNCHANGED <<var_mods, fixed_mods, pep_seq, seen, pep_var_mods,
                   pep_fixed_mods, out>>

ReturnQueries ==
    /\ pc = "rows"
    /\ out' = SortedByScan(out)
    /\ pc' = "returned"
    /\ UNCHANGED <<var_mods, fixed_mods, pep_seq, seen, pep_var_mods,
                   pep_fixed_mods>>

ReaderNext == ReadRow \/ ReadRowRaises \/ ReturnQueries

SpecReader == ReaderInit /\ [][ReaderNext]_vars

\* C8: no two records of the returned list have the same identity tuple
\* (accession, query, sequence, scan).
C8_DeduplicatedOutput ==
    pc = "returned"
        => \A i, j \in 1..Len(out) :
              i < j => UniqueTuple(out[i]) # UniqueTuple(out[j])

----------------------------------------------------------------------------
(* Properties of the combinatorial count *)

Constructed == pc = "constructed"

\* Sites of a peptide: 0 is the N-terminus, Len(seq) + 1 the C-terminus.
SiteToken(seq, s) ==
    IF s = 0 THEN NTerm ELSE IF s = Len(seq) + 1 THEN CTerm ELSE <<seq[s]>>

IsPhosphoST(entry) ==
    entry[2] = "Phospho" /\ Range(entry[3].elts) = Range(STLetters)

\* The candidate-site tokens of an entry, Phospho on {S, T} extended by Y.
CandidateTokens(entry) ==
    IF IsPhosphoST(entry) THEN Range(STYLetters) ELSE Range(entry[3].elts)

CandidateSites(seq, entry) ==
    {s \in 0..(Len(seq) + 1) : SiteToken(seq, s) \in CandidateTokens(entry)}

\* Every labelling of sites by modification names that places entries k.. on
\* free sites: `count` candidate sites each, no site used twice.
RECURSIVE PlacementsFrom(_, _, _, _)
PlacementsFrom(seq, mods, k, free) ==
    IF k > Len(mods) THEN {{}}
    ELSE UNION {
            {{<<s, mods[k][2]>> : s \in S} \cup rest :
                rest \in PlacementsFrom(seq, mods, k + 1, free \ S)} :
            S \in {T \in SUBSET (CandidateSites(seq, mods[k]) \cap free) :
                      Cardinality(T) = mods[k][1]}}

TruePlacements(seq, mods) ==
    Cardinality(PlacementsFrom(seq, mods, 1, 0..(Len(seq) + 1)))

\* Entries on residue letters only, each declared once, none subject to the
\* Phospho extension, and no two entries sharing a candidate token.
DisjointResidueSets(mods) ==
    /\ \A k \in 1..Len(mods) :
          /\ mods[k][3].elts # <<>>
          /\ Range(mods[k][3].elts) \cap {NTerm, CTerm} = {}
          /\ Cardinality(Range(mods[k][3].elts)) = Len(mods[k][3].elts)
          /\ ~IsPhosphoST(mods[k])
    /\ \A k, o \in 1..Len(mods) :
          k # o => Range(mods[k][3].elts) \cap Range(mods[o][3].elts) = {}

\* Lists on which _calc_num_comb follows the enumeration algorithm to the
\* letter: residue-letter entries, none subject to the Phospho extension, and
\* any two entries with the same letters in the same order or no common token.
PlainResidueSets(mods) ==
    /\ \A k \in 1..Len(mods) :
          /\ Range(mods[k][3].elts) \cap {NTerm, CTerm} = {}
          /\ Cardinality(Range(mods[k][3].elts)) = Len(mods[k][3].elts)
          /\ ~IsPhosphoST(mods[k])
    /\ \A k, o \in 1..Len(mods) :
          \/ mods[k][3] = mods[o][3]
          \/ Range(mods[k][3].elts) \cap Range(mods[o][3].elts) = {}

\* C4 as stated: num_comb is the number of distinguishable placements of the
\* variable modifications (taken on the lists of PlainResidueSets, where the
\* terminal-token, Phospho and letter-order behaviour of C6, C5 and C7 plays
\* no part).
C4_NumCombIsPlacementCount ==
    (Constructed /\ PlainResidueSets(out[1].pep_var_mods))
        => out[1].num_comb = TruePlacements(pep_seq, out[1].pep_var_mods)

\* C4 as amended: num_comb is the number of distinguishable placements when no
\* two entries of the variable list share a candidate site (residue-letter
\* entries with pairwise disjoint residue sets).
C4_NumCombOnDisjointSets ==
    (Constructed /\ DisjointResidueSets(out[1].pep_var_mods))
        => out[1].num_comb = TruePlacements(pep_seq, out[1].pep_var_mods)

C4_Witness ==
    /\ Constructed
    /\ DisjointResidueSets(out[1].pep_var_mods)
    /\ Len(out[1].pep_var_mods) >= 2
    /\ out[1].num_comb > 1

STYCount(seq) == Cardinality({i \in 1..Len(seq) : <<seq[i]>> \in Range(STYLetters)})

\* C5: for a Phospho entry on exactly {S, T} the available-site count is the
\* number of S, T and Y of the sequence (one such entry with count 1 gives
\* num_comb = that number); no other entry is expanded.
C5_PhosphoExpansion ==
    Constructed
        => \A k \in 1..Len(out[1].pep_var_mods) :
              LET e == out[1].pep_var_mods[k] IN
              IF IsPhosphoST(e)
              THEN /\ AvailableSites(pep_seq, e[2], e[3]) = STYCount(pep_seq)
                   /\ (Len(out[1].pep_var_mods) = 1 /\ e[1] = 1)
                      => out[1].num_comb = STYCount(pep_seq)
              ELSE EffectiveLetters(e[2], e[3]) = e[3]

\* C6: in the available-site count a terminal token contributes 1 and a
\* residue letter its occurrences in the sequence; a single entry on {N-term}
\* with count 1 gives num_comb = 1.
C6_TerminalTokenIsOneSite ==
    Constructed
        => \A k \in 1..Len(out[1].pep_var_mods) :
              LET e == out[1].pep_var_mods[k] IN
              /\ AvailableSites(pep_seq, e[2], e[3])
                   = CountInstances(pep_seq, EffectiveLetters(e[2], e[3]).elts)
              /\ (Len(out[1].pep_var_mods) = 1 /\ e[1] = 1
                    /\ e[3] = PyTuple(<<NTerm>>))
                 => out[1].num_comb = 1

\* C7: the available-site count of an entry is reduced by the counts of the
\* other entries with the same set of candidate tokens, in whatever order they
\* were declared, and a different name, and by nothing else (taken on the
\* lists without a Phospho entry on {S, T}, where C5 plays no part).
C7_SitePoolSubtraction ==
    (Constructed /\ \A k \in 1..Len(out[1].pep_var_mods) :
                        ~IsPhosphoST(out[1].pep_var_mods[k]))
        => \A k \in 1..Len(out[1].pep_var_mods) :
              LET mods == out[1].pep_var_mods IN
              PotentialModSites(pep_seq, mods, k)
                = AvailableSites(pep_seq, mods[k][2], mods[k][3])
                  - SumSeq([o \in 1..Len(mods) |->
                              IF /\ o # k
                                 /\ CandidateTokens(mods[o]) = CandidateTokens(mods[k])
                                 /\ mods[o][2] # mods[k][2]
                              THEN mods[o][1] ELSE 0])

\* C10: num_comb is the same for every permutation of the variable list.
C10_OrderIndependence ==
    Constructed
        => LET mods == out[1].pep_var_mods IN
           \A p \in Permutations(1..Len(mods)) :
              CalcNumComb(pep_seq, [i \in 1..Len(mods) |-> mods[p[i]]])
                = out[1].num_comb

C10_Witness ==
    /\ Constructed
    /\ Len(out[1].pep_var_mods) >= 2
    /\ out[1].pep_var_mods[1][3] = out[1].pep_var_mods[2][3]
    /\ out[1].pep_var_mods[1][2] # out[1].pep_var_mods[2][2]
    /\ out[1].num_comb >= 1

====
